---- MODULE Spec2Model ----
(***************************************************************************)
(* A model of the cso2 master server's Room (room membership, host         *)
(* election, broadcasts) and UserManager (login, host-proxied packets).    *)
(***************************************************************************)
EXTENDS Integers, Sequences, FiniteSets, TLC

\* ------------------------------------------------------------------ bounds
NumUsers == 3
NumSnaps == 1
NumRooms == 2
MaxMembers == 3
FillOver == 1
FillChurn == 2
NumConns == 2
NumAccounts == 1
MaxTicks == 2
CacheOver == 1
CacheChurn == 2
MaxGiven == 2
MaxVal == 2

\* ------------------------------------------------------- program constants
MaxPlayersBots == 16
MaxPlayersNoBots == 32
\* The sequence byte is one byte; the second byte of the unlock reply.
SeqModulus == 256
UnlockSeq == 25
\* new LRU<number, User>({ max: 100, maxAge: 1000 * 15 })
CacheMax == 100
CacheMaxAge == 15000

UserIds == 1..NumUsers
Snaps == 1..NumSnaps
RoomIds == 1..NumRooms
Conns == 1..NumConns

\* The accounts that log in on fresh connections.
Accounts == 1..NumAccounts

\* A User object: the account it is a snapshot of, and which snapshot it is
\* (two objects are === only when both agree).
UserObjs == [userId : UserIds, snap : Snaps]
NoUser == [userId |-> 0, snap |-> 0]

FirstSnap == CHOOSE s \in Snaps : \A t \in Snaps : s <= t

\* The User object a handler holds for an account.
UserOf(userId) == [userId |-> userId, snap |-> FirstSnap]

MemberIds(room) == {room.users[i].userId : i \in 1..Len(room.users)}

\* IRoomOptions: every field is optional. A field is given or not; a given
\* number may be 0 and a given name may be the empty string.
OptionFields ==
    {"roomName", "gameModeId", "mapId", "winLimit", "killLimit", "startMoney",
     "forceCamera", "nextMapEnabled", "changeTeams", "enableBots",
     "difficulty", "respawnTime", "teamBalance", "weaponRestrictions",
     "hltvEnabled"}

RoomNames == {"", "lobby"}

NumberFields == OptionFields \ {"roomName"}

Unspecified(f) == [given |-> FALSE, val |-> IF f = "roomName" THEN "" ELSE 0]

NoOptions == [f \in OptionFields |-> Unspecified(f)]

\* The options as far as membership depends on them.
RoomOptions ==
    {[NoOptions EXCEPT !.enableBots = e] : e \in [given : BOOLEAN, val : 0..1]}

\* The options object with this name option and these numbers given.
Options(name, v) ==
    [f \in OptionFields |->
        IF f = "roomName" THEN name
        ELSE IF f \in DOMAIN v THEN [given |-> TRUE, val |-> v[f]]
        ELSE Unspecified(f)]

NameOptions == {Unspecified("roomName")} \cup [given : {TRUE}, val : RoomNames]

\* The choices of up to MaxGiven numbers to give.
GivenFields == {g \in SUBSET NumberFields : Cardinality(g) <= MaxGiven}

VARIABLES
    rooms,       \* room id -> the Room object of that id (or none / deleted)
    emptyCalls,  \* room id -> number of emptyRoomCallback(room, channel) calls
    wire,        \* frames written to members' sockets by the latest Room operation
    lastOp,      \* the latest Room operation and the host it found
    inGame,      \* room id -> whether a match is running in the room
    conns,       \* connection -> ExtendedSocket: open or ended, and its owner
    sent,        \* connection -> the frames written on it, in order
    sessions,    \* userId -> the user's UserSession (or none)
    login,       \* connection -> where its onLoginPacket call stands
    uiTask,      \* connection -> the sendUserInfoTo call started by its login
    invTask,     \* connection -> the sendInventory call started by its login
    hostReq,     \* connection -> where its onHostPacket call stands
    packets,     \* the packets on their way to the server
    ret,         \* connection -> what its latest handler returned, and where
    writeReq,    \* connection -> where its Favorite / Option handler stands
    writes,      \* connection -> the inventory-service writes its handlers made
    alive,       \* UserSvcPing.isAlive()
    userCache,   \* the LRU of User objects, most recently used first
    now,         \* Date.now(), in milliseconds
    ticks,       \* how many times the clock has advanced
    gw,          \* the user-service call in progress, or the last one finished
    track        \* when TrackedUser was last fetched, and who was fetched since

roomVars == <<rooms, emptyCalls, wire, lastOp, inGame>>
loginVars == <<login, uiTask, invTask>>
hostVars == <<hostReq, packets>>
gwVars == <<alive, userCache, now, ticks, gw, track>>
svcVars == <<writeReq, writes, gwVars>>
userVars == <<conns, sent, sessions, login, uiTask, invTask, hostReq, packets, ret,
              svcVars>>
vars == <<rooms, emptyCalls, wire, lastOp, inGame, conns, sent, sessions, login, uiTask,
          invTask, hostReq, packets, ret, svcVars>>

\* ------------------------------------------------------------------- Room

\* A given number other than 0, a given string other than "".
Truthy(opt) == opt.given /\ opt.val # 0

TruthyName(opt) == opt.given /\ opt.val # ""

\* options.x ? options.x : default
OptionOr_zero(opt, default) == IF Truthy(opt) THEN opt.val ELSE 0

OptionOr(opt, default) == IF Truthy(opt) THEN opt.val ELSE default

NoRoom == [state |-> "none", users |-> <<>>, host |-> NoUser,
           enableBots |-> 0, maxPlayers |-> 0]

getFreeSlots(room) ==
    LET availableSlots == room.maxPlayers - Len(room.users)
    IN  IF availableSlots >= 0 THEN availableSlots ELSE 0

hasFreeSlots(room) == getFreeSlots(room) # 0

addUser(room, user) == [room EXCEPT !.users = Append(@, user)]

\* new Room(roomId, host, parentChannel, emptyRoomCallback, options)
RoomCtor(roomId, host, options) ==
    addUser([state |-> "live", id |-> roomId, users |-> <<>>, host |-> host,
             roomName |-> IF TruthyName(options.roomName)
                          THEN <<options.roomName.val>>
                          ELSE <<"Room #", roomId>>,
             gameModeId |-> OptionOr(options.gameModeId, 0),
             mapId |-> OptionOr(options.mapId, 1),
             winLimit |-> OptionOr(options.winLimit, 10),
             killLimit |-> OptionOr(options.killLimit, 150),
             startMoney |-> OptionOr(options.startMoney, 16000),
             forceCamera |-> OptionOr(options.forceCamera, 1),
             nextMapEnabled |-> OptionOr(options.nextMapEnabled, 0),
             changeTeams |-> OptionOr(options.changeTeams, 0),
             enableBots |-> OptionOr(options.enableBots, 0),
             difficulty |-> OptionOr(options.difficulty, 0),
             maxPlayers |-> IF Truthy(options.enableBots)
                            THEN MaxPlayersBots ELSE MaxPlayersNoBots,
             respawnTime |-> OptionOr(options.respawnTime, 3),
             teamBalance |-> OptionOr(options.teamBalance, 0),
             weaponRestrictions |-> OptionOr(options.weaponRestrictions, 0),
             hltvEnabled |-> OptionOr(options.hltvEnabled, 0)],
            host)

\* Array.prototype.indexOf with ===; 0 when absent.
IndexOfUser(us, user) ==
    IF \E i \in 1..Len(us) : us[i] = user
    THEN CHOOSE i \in 1..Len(us) :
            us[i] = user /\ \A j \in 1..(i - 1) : us[j] # user
    ELSE 0

\* first index whose user.userId === userId; 0 when absent.
IndexOfUserId(us, userId) ==
    IF \E i \in 1..Len(us) : us[i].userId = userId
    THEN CHOOSE i \in 1..Len(us) :
            us[i].userId = userId /\ \A j \in 1..(i - 1) : us[j].userId # userId
    ELSE 0

\* users.splice(i, 1)
Splice(us, i) == SubSeq(us, 1, i - 1) \o SubSeq(us, i + 1, Len(us))

Frame(to, type, arg) == [to |-> to, type |-> type, arg |-> arg]

sendRemovedUser(room, userId) ==
    [i \in 1..Len(room.users) |-> Frame(room.users[i].userId, "playerLeave", userId)]

updateHost_keep(room, newHost) ==
    [room   |-> room,
     frames |-> [i \in 1..Len(room.users) |->
                    Frame(room.users[i].userId, "setHost", newHost.userId)]]

updateHost(room, newHost) ==
    [room   |-> [room EXCEPT !.host = newHost],
     frames |-> [i \in 1..Len(room.users) |->
                    Frame(room.users[i].userId, "setHost", newHost.userId)]]

findAndUpdateNewHost_stale(room) == [room |-> room, frames |-> <<>>]

findAndUpdateNewHost_last(room) == updateHost(room, room.users[Len(room.users)])

findAndUpdateNewHost(room) ==
    IF Len(room.users) = 0
    THEN [room |-> room, frames |-> <<>>]
    ELSE updateHost(room, room.users[1])

\* The room after the removal, the frames written, and whether
\* emptyRoomCallback(this, parentChannel) was called.
onUserRemoved_hostOnly(room, userId) ==
    IF Len(room.users) = 0
    THEN [room |-> room, frames |-> <<>>, empty |-> TRUE]
    ELSE LET h == IF \E i \in 1..Len(room.users) : room.users[i] = room.host
                  THEN [room |-> room, frames |-> <<>>]
                  ELSE findAndUpdateNewHost(room)
         IN  [room   |-> h.room,
              frames |-> h.frames \o sendRemovedUser(h.room, userId),
              empty  |-> FALSE]

onUserRemoved_noCallback(room, userId) ==
    IF Len(room.users) = 0
    THEN [room |-> room, frames |-> <<>>, empty |-> FALSE]
    ELSE LET h == findAndUpdateNewHost(room)
         IN  [room   |-> h.room,
              frames |-> h.frames \o sendRemovedUser(h.room, userId),
              empty  |-> FALSE]

onUserRemoved_leaveFirst(room, userId) ==
    IF Len(room.users) = 0
    THEN [room |-> room, frames |-> <<>>, empty |-> TRUE]
    ELSE LET h == findAndUpdateNewHost(room)
         IN  [room   |-> h.room,
              frames |-> sendRemovedUser(h.room, userId) \o h.frames,
              empty  |-> FALSE]

onUserRemoved(room, userId) ==
    IF Len(room.users) = 0
    THEN [room |-> room, frames |-> <<>>, empty |-> TRUE]
    ELSE LET h == findAndUpdateNewHost(room)
         IN  [room   |-> h.room,
              frames |-> h.frames \o sendRemovedUser(h.room, userId),
              empty  |-> FALSE]

removeUser(room, targetUser) ==
    LET i == IndexOfUser(room.users, targetUser)
    IN  IF i = 0
        THEN [room |-> room, frames |-> <<>>, empty |-> FALSE]
        ELSE onUserRemoved([room EXCEPT !.users = Splice(@, i)],
                           room.users[i].userId)

removeUserById(room, userId) ==
    LET i == IndexOfUserId(room.users, userId)
    IN  IF i = 0
        THEN [room |-> room, frames |-> <<>>, empty |-> FALSE]
        ELSE onUserRemoved([room EXCEPT !.users = Splice(@, i)], userId)

\* --- the same removal when writes can fail. A write to a member fails at
\* the member's first frame of the type fail[userId] names; the failed
\* connection is closed and handled as a disconnect there and then, which
\* calls removeUser for the member from inside the loop.
FailKinds == {"never", "setHost", "playerLeave"}

RECURSIVE BroadcastFrom(_, _, _, _, _)
RECURSIVE Disconnected(_, _, _)

\* for (const user of this.users) { user.socket.write(reply) }, from the
\* i-th member on: the loop reads this.users anew at every step.
BroadcastFrom(room, type, arg, i, fail) ==
    IF i > Len(room.users)
    THEN room
    ELSE LET user == room.users[i]
             reply == Frame(user.userId, type,
                            IF type = "setHost" THEN room.host.userId ELSE arg)
         IN  BroadcastFrom(IF fail[user.userId] = type
                           THEN Disconnected(room, user, fail)
                           ELSE [room EXCEPT !.frames = Append(@, reply)],
                           type, arg, i + 1, fail)

\* removeUser(user) and its onUserRemoved, with the broadcasts as loops.
Disconnected(room, user, fail) ==
    LET i == IndexOfUser(room.users, user)
        left == [room EXCEPT !.users = Splice(@, i)]
    IN  IF i = 0 THEN room
        ELSE IF Len(left.users) = 0
        THEN [left EXCEPT !.emptied = @ + 1]
        ELSE BroadcastFrom(
                 BroadcastFrom([left EXCEPT !.host = left.users[1]],
                               "setHost", 0, 1, fail),
                 "playerLeave", user.userId, 1, fail)

\* removeUserById(userId) on a room whose members' writes fail as in fail.
removeUserByIdFailing(room, userId, fail) ==
    LET i == IndexOfUserId(room.users, userId)
        run == [users |-> room.users, host |-> room.host, frames |-> <<>>,
                emptied |-> 0]
        out == Disconnected(run, room.users[i], fail)
    IN  IF i = 0
        THEN [room |-> room, frames |-> <<>>, empty |-> FALSE]
        ELSE [room   |-> [room EXCEPT !.users = out.users, !.host = out.host],
              frames |-> out.frames,
              empty  |-> out.emptied > 0]

\* emptyRoomCallback: the channel deletes the room it is handed.
emptyRoomCallback(room) == [room EXCEPT !.state = "deleted"]

\* index: where the removed member stood in users (0: nothing was removed);
\* options: the options object a constructor was handed.
Op(op, r, userId, hostBefore, index) ==
    [op |-> op, room |-> r, userId |-> userId, hostBefore |-> hostBefore,
     index |-> index, options |-> NoOptions]

NoOp == Op("none", 0, 0, 0, 0)

\* Apply the outcome of a removal to room r.
Removed(r, res) ==
    /\ rooms' = [rooms EXCEPT ![r] = IF res.empty THEN emptyRoomCallback(res.room)
                                     ELSE res.room]
    /\ emptyCalls' = [emptyCalls EXCEPT ![r] = IF res.empty THEN @ + 1 ELSE @]
    /\ wire' = res.frames
    /\ UNCHANGED inGame

\* ------------------------------------------------- Room operations as calls

NewRoom(r, host, options) ==
    /\ rooms[r].state = "none"
    /\ \A q \in RoomIds : q < r => rooms[q].state # "none"
    /\ rooms' = [rooms EXCEPT ![r] = RoomCtor(r, host, options)]
    /\ wire' = <<>>
    /\ lastOp' = [Op("new", r, host.userId, 0, 0) EXCEPT !.options = options]
    /\ UNCHANGED <<emptyCalls, inGame>>

AddUser(r, user) ==
    /\ rooms[r].state = "live"
    /\ rooms' = [rooms EXCEPT ![r] = addUser(@, user)]
    /\ wire' = <<>>
    /\ lastOp' = Op("addUser", r, user.userId, rooms[r].host.userId, 0)
    /\ UNCHANGED <<emptyCalls, inGame>>

RemoveUser(r, user) ==
    /\ rooms[r].state = "live"
    /\ Removed(r, removeUser(rooms[r], user))
    /\ lastOp' = Op("removeUser", r, user.userId, rooms[r].host.userId,
                    IndexOfUser(rooms[r].users, user))

RemoveUserById(r, userId) ==
    /\ rooms[r].state = "live"
    /\ Removed(r, removeUserById(rooms[r], userId))
    /\ lastOp' = Op("removeUserById", r, userId, rooms[r].host.userId,
                    IndexOfUserId(rooms[r].users, userId))

RemoveUserByIdFailing(r, userId, fail) ==
    /\ rooms[r].state = "live"
    /\ fail[userId] = "never"
    /\ Removed(r, removeUserByIdFailing(rooms[r], userId, fail))
    /\ lastOp' = Op("removeUserById", r, userId, rooms[r].host.userId,
                    IndexOfUserId(rooms[r].users, userId))

\* ------------------------------------------------------------ UserManager

\* UserSession: the session of a logged-in user, kept by the user service.
NoSession == [userId |-> 0, currentRoomId |-> 0]

NewSession(userId) == [userId |-> userId, currentRoomId |-> 0]

isInRoom(session) == session.currentRoomId # 0

\* The four reads of sendInventory's Promise.all.
InvKinds == {"inventory", "cosmetics", "loadouts", "buyMenu"}

\* A frame written on a connection: its packet type, the userId it is tagged
\* with, and the user whose data it carries (0: none).
Packet(type, about, data) == [type |-> type, about |-> about, data |-> data]

InventoryTypes == {"Inventory", "Unlock", "SetCosmetics", "SetLoadout", "SetBuyMenu"}

LoginIdle == [pc |-> "idle", userId |-> 0]

NoTask == [st |-> "idle", userId |-> 0]

\* A sendInventory call: the reads of its Promise.all that have not resolved
\* yet, and whether every read that has resolved gave a value.
NoReads == [st |-> "idle", userId |-> 0, waiting |-> {}, ok |-> TRUE]

HostIdle == [pc |-> "idle", type |-> "none", target |-> 0, requester |-> 0,
             reqSession |-> NoSession, tgtSession |-> NoSession, fetchFor |-> 0]

HostTypes == {"SetInventory", "SetLoadout", "SetBuyMenu"}

\* A Host packet in flight: the connection it comes in on, its packet type
\* and the userId it names.
HostPacket(c, type, target) == [conn |-> c, type |-> type, target |-> target]

\* What a handler returned ("true", "false", or "throw" for an exception),
\* and the place it returned from.
Return(value, at) == [value |-> value, at |-> at]

NoReturn == Return("none", "none")

\* A packet with the sequence byte it goes out with.
Stamped(p, seq) == [type |-> p.type, about |-> p.about, data |-> p.data,
                    seq |-> seq]

\* ExtendedSocket.getSeq on a connection that has written the frames out:
\* the counter goes up by one with every write and wraps.
getSeq(out) == Len(out) % SeqModulus

\* ExtendedSocket.send, packet after packet: each takes the counter's value.
write(out, ps) ==
    out \o [i \in 1..Len(ps) |-> Stamped(ps[i], (Len(out) + i - 1) % SeqModulus)]

\* ExtendedSocket.sendBuffer: the bytes are written as they are.
sendBuffer(out, frame) == Append(out, frame)

send(c, frames) == [sent EXCEPT ![c] = write(@, frames)]

\* connection.hasOwner()
hasOwner_always(c) == TRUE

hasOwner(c) == conns[c].owner # 0

\* connection.end()
end(c) == [conns EXCEPT ![c].open = FALSE]

\* The channel's room of that id, or null (NoRoom) when the channel has none.
getSessionCurRoom(session) ==
    IF session.currentRoomId \in RoomIds
       /\ rooms[session.currentRoomId].state = "live"
    THEN rooms[session.currentRoomId]
    ELSE NoRoom

\* --- onLoginPacket

\* A Login packet arrives on a connection that has no owner yet; the handler
\* suspends on UserSession.create.
onLoginPacket(c) ==
    /\ conns[c].open /\ conns[c].owner = 0
    /\ login[c].pc = "idle"
    /\ login' = [login EXCEPT ![c].pc = "create"]
    /\ ret' = [ret EXCEPT ![c] = NoReturn]
    /\ UNCHANGED <<roomVars, conns, sent, sessions, uiTask, invTask, hostVars, svcVars>>

LoginRejected_noEnd(c) ==
    /\ login' = [login EXCEPT ![c].pc = "rejected"]
    /\ ret' = [ret EXCEPT ![c] = Return("false", "noSession")]
    /\ UNCHANGED <<roomVars, conns, sent, sessions, uiTask, invTask, hostVars, svcVars>>

\* UserSession.create gave null: connection.end(); return false
LoginRejected(c) ==
    /\ conns' = end(c)
    /\ login' = [login EXCEPT ![c].pc = "rejected"]
    /\ ret' = [ret EXCEPT ![c] = Return("false", "noSession")]
    /\ UNCHANGED <<roomVars, sent, sessions, uiTask, invTask, hostVars, svcVars>>

\* UserSession.create gave a session: session.update(), setOwner, and the
\* handler suspends on User.get.
LoginAccepted(c, userId) ==
    /\ sessions' = [sessions EXCEPT ![userId] = NewSession(userId)]
    /\ conns' = [conns EXCEPT ![c].owner = userId]
    /\ login' = [login EXCEPT ![c] = [pc |-> "getUser", userId |-> userId]]
    /\ UNCHANGED <<roomVars, sent, uiTask, invTask, hostVars, svcVars, ret>>

\* UserSession.create resolves: userId = 0 stands for null.
LoginCreated(c, userId) ==
    /\ login[c].pc = "create"
    /\ IF userId = 0 THEN LoginRejected(c) ELSE LoginAccepted(c, userId)

\* sendUserInfoTo up to its await: UserStart is written at once.
sendUserInfoTo(userId) == <<Packet("UserStart", userId, userId)>>

\* ChannelManager.sendChannelListTo
sendChannelListTo == <<Packet("ChannelList", 0, 0)>>

\* User.get resolves. null: end, return false. Otherwise sendUserInfoTo and
\* sendInventory are started (neither is awaited), the channel list is sent
\* and the handler returns true.
LoginGotUser(c, found) ==
    /\ login[c].pc = "getUser"
    /\ IF found
       THEN /\ sent' = send(c, sendUserInfoTo(login[c].userId) \o sendChannelListTo)
            /\ uiTask' = [uiTask EXCEPT ![c] =
                            [st |-> "pending", userId |-> login[c].userId]]
            /\ invTask' = [invTask EXCEPT ![c] =
                            [st |-> "pending", userId |-> login[c].userId,
                             waiting |-> InvKinds, ok |-> TRUE]]
            /\ login' = [login EXCEPT ![c].pc = "done"]
            /\ ret' = [ret EXCEPT ![c] = Return("true", "loggedIn")]
            /\ UNCHANGED conns
       ELSE /\ conns' = end(c)
            /\ login' = [login EXCEPT ![c].pc = "nouser"]
            /\ ret' = [ret EXCEPT ![c] = Return("false", "noUser")]
            /\ UNCHANGED <<sent, uiTask, invTask>>
    /\ UNCHANGED <<roomVars, sessions, hostVars, svcVars>>

\* OutUserInfoPacket.fullUserUpdate resolves inside sendUserInfoTo.
UserInfoResolved(c) ==
    /\ uiTask[c].st = "pending"
    /\ sent' = send(c, <<Packet("UserInfo", uiTask[c].userId, uiTask[c].userId)>>)
    /\ uiTask' = [uiTask EXCEPT ![c].st = "done"]
    /\ UNCHANGED <<roomVars, conns, sessions, login, invTask, hostVars, svcVars, ret>>

\* const unlockReply: Buffer = Buffer.from([0x55, 0x19, ...])
unlockReply == Stamped(Packet("Unlock", 0, 0), UnlockSeq)

sendInventory_swapped(out, userId) ==
    write(sendBuffer(write(out, <<Packet("Inventory", userId, userId)>>),
                     unlockReply),
          << Packet("SetLoadout", userId, userId),
             Packet("SetCosmetics", userId, userId),
             Packet("SetBuyMenu", userId, userId) >>)

\* sendInventory once its four reads are all there: the connection's frames
\* after it has written its own.
sendInventory(out, userId) ==
    write(sendBuffer(write(out, <<Packet("Inventory", userId, userId)>>),
                     unlockReply),
          << Packet("SetCosmetics", userId, userId),
             Packet("SetLoadout", userId, userId),
             Packet("SetBuyMenu", userId, userId) >>)

\* if (inventory == null || cosmetics == null || loadouts == null
\*     || buyMenu == null) { return }
inventoryReply_partial(out, userId, ok) == sendInventory(out, userId)

inventoryReply(out, userId, ok) == IF ok THEN sendInventory(out, userId) ELSE out

\* Read k of sendInventory's Promise.all resolves (present = FALSE: null).
\* With the last of the four the Promise.all resolves: a null among them
\* returns, otherwise the frames are written.
InventoryRead(c, k, present) ==
    /\ invTask[c].st = "pending"
    /\ k \in invTask[c].waiting
    /\ LET waiting == invTask[c].waiting \ {k}
           ok == invTask[c].ok /\ present
       IN  IF waiting = {}
           THEN /\ sent' = [sent EXCEPT
                               ![c] = inventoryReply(@, invTask[c].userId, ok)]
                /\ invTask' = [invTask EXCEPT ![c].st = "done",
                                               ![c].waiting = {}, ![c].ok = ok]
           ELSE /\ invTask' = [invTask EXCEPT ![c].waiting = waiting, ![c].ok = ok]
                /\ UNCHANGED sent
    /\ UNCHANGED <<roomVars, conns, sessions, login, uiTask, hostVars, svcVars, ret>>

\* The client's socket closes: the session of its owner is removed, and the
\* owner is removed from the room it was in.
ConnClosed(c) ==
    /\ conns[c].open
    /\ conns' = end(c)
    /\ sessions' = IF conns[c].owner # 0
                   THEN [sessions EXCEPT ![conns[c].owner] = NoSession]
                   ELSE sessions
    /\ IF conns[c].owner # 0 /\ isInRoom(sessions[conns[c].owner])
       THEN RemoveUser(sessions[conns[c].owner].currentRoomId, UserOf(conns[c].owner))
       ELSE UNCHANGED roomVars
    /\ UNCHANGED <<sent, loginVars, hostVars, svcVars, ret>>

\* --- room requests of a logged-in connection (create, join, leave)

\* The connection is authenticated and its session is there. A Host packet
\* of the same connection may be suspended meanwhile.
Ready(c) ==
    /\ conns[c].open /\ conns[c].owner # 0
    /\ sessions[conns[c].owner] # NoSession
    /\ login[c].pc \in {"idle", "done"}

\* The channel creates a room of the next id with the requester as its host.
CreateRoom(c, r, options) ==
    /\ Ready(c)
    /\ ~isInRoom(sessions[conns[c].owner])
    /\ NewRoom(r, UserOf(conns[c].owner), options)
    /\ sessions' = [sessions EXCEPT ![conns[c].owner].currentRoomId = r]
    /\ UNCHANGED <<conns, sent, loginVars, hostVars, svcVars, ret>>

JoinRoom(c, r) ==
    /\ Ready(c)
    /\ ~isInRoom(sessions[conns[c].owner])
    /\ rooms[r].state = "live"
    /\ hasFreeSlots(rooms[r])
    /\ AddUser(r, UserOf(conns[c].owner))
    /\ sessions' = [sessions EXCEPT ![conns[c].owner].currentRoomId = r]
    /\ UNCHANGED <<conns, sent, loginVars, hostVars, svcVars, ret>>

LeaveRoom(c) ==
    /\ Ready(c)
    /\ isInRoom(sessions[conns[c].owner])
    /\ RemoveUser(sessions[conns[c].owner].currentRoomId, UserOf(conns[c].owner))
    /\ sessions' = [sessions EXCEPT ![conns[c].owner].currentRoomId = 0]
    /\ UNCHANGED <<conns, sent, loginVars, hostVars, svcVars, ret>>

\* --- onHostPacket and the three host-proxied packets

HostDone(c, value, at) ==
    /\ hostReq' = [hostReq EXCEPT ![c] = HostIdle]
    /\ ret' = [ret EXCEPT ![c] = Return(value, at)]

\* A Host packet arrives. Without an owner: return false. Otherwise the
\* handler suspends on User.get(connection.getOwner()).
onHostPacket(c, type, target) ==
    /\ conns[c].open
    /\ login[c].pc \in {"idle", "done"}
    /\ hostReq[c].pc = "idle"
    /\ HostPacket(c, type, target) \in packets
    /\ packets' = packets \ {HostPacket(c, type, target)}
    /\ IF hasOwner(c) = FALSE
       THEN HostDone(c, "false", "noOwner")
       ELSE /\ hostReq' = [hostReq EXCEPT ![c] =
                    [HostIdle EXCEPT !.pc = "getUser", !.type = type,
                                     !.target = target]]
            /\ ret' = [ret EXCEPT ![c] = NoReturn]
    /\ UNCHANGED <<roomVars, conns, sent, sessions, loginVars, svcVars>>

\* User.get resolves: null returns false; otherwise the packet's handler
\* starts and suspends on the Promise.all of the two UserSession.get.
HostGotUser(c, found) ==
    /\ hostReq[c].pc = "getUser"
    /\ IF found
       THEN /\ hostReq' = [hostReq EXCEPT
                    ![c].pc = IF hostReq[c].type = "OnGameEnd" THEN "gameEnd"
                              ELSE "getSessions",
                    ![c].requester = conns[c].owner]
            /\ UNCHANGED ret
       ELSE HostDone(c, "false", "noUser")
    /\ UNCHANGED <<roomVars, conns, sent, sessions, loginVars, svcVars, packets>>

\* The user service answers the two UserSession.get (FALSE: null).
HostGotSessions(c, okReq, okTgt) ==
    /\ hostReq[c].pc = "getSessions"
    /\ hostReq' = [hostReq EXCEPT
            ![c].pc = "check",
            ![c].reqSession = IF okReq THEN sessions[hostReq[c].requester]
                              ELSE NoSession,
            ![c].tgtSession = IF okTgt THEN sessions[hostReq[c].target]
                              ELSE NoSession]
    /\ UNCHANGED <<roomVars, conns, sent, sessions, loginVars, svcVars, packets, ret>>

HostAuthorize_noHostCheck(requesterSession, targetSession, requesterId) ==
    IF requesterSession = NoSession THEN Return("false", "noReqSession")
    ELSE IF ~isInRoom(requesterSession) THEN Return("false", "notInRoom")
    ELSE IF targetSession = NoSession THEN Return("false", "noTgtSession")
    ELSE IF getSessionCurRoom(requesterSession).state # "live"
         THEN Return("throw", "noRoom")
    ELSE Return("true", "authorized")

\* The checks of onHostSetUserInventory / Loadout / BuyMenu, in order. A
\* room that cannot be found makes the handler's log call read
\* currentRoom.id of null, which throws.
HostAuthorize(requesterSession, targetSession, requesterId) ==
    IF requesterSession = NoSession THEN Return("false", "noReqSession")
    ELSE IF ~isInRoom(requesterSession) THEN Return("false", "notInRoom")
    ELSE IF targetSession = NoSession THEN Return("false", "noTgtSession")
    ELSE IF getSessionCurRoom(requesterSession).state # "live"
         THEN Return("throw", "noRoom")
    ELSE IF getSessionCurRoom(requesterSession).host.userId # requesterId
         THEN Return("false", "notHost")
    ELSE Return("true", "authorized")

\* The user whose data the handler asks the inventory service for:
\* sendUserInventoryTo reads getInventory(hostUserId); the builders of
\* setLoadout and setBuyMenu read the target's.
FetchFor(req) ==
    IF req.type = "SetInventory" THEN req.reqSession.userId
    ELSE req.tgtSession.userId

\* The handler resumes with the two sessions and runs its checks; when all
\* pass it suspends on the inventory service.
HostCheck(c) ==
    /\ hostReq[c].pc = "check"
    /\ LET req == hostReq[c]
           res == HostAuthorize(req.reqSession, req.tgtSession, req.requester)
       IN  IF res.value = "true"
           THEN /\ hostReq' = [hostReq EXCEPT ![c].pc = "fetch",
                                              ![c].fetchFor = FetchFor(req)]
                /\ UNCHANGED ret
           ELSE HostDone(c, res.value, res.at)
    /\ UNCHANGED <<roomVars, conns, sent, sessions, loginVars, svcVars, packets>>

\* The inventory service answers (present = FALSE: null). The frame is
\* tagged with the target's userId; a null inventory makes
\* sendUserInventoryTo read inventory.items of null, which throws.
HostFetched(c, present) ==
    /\ hostReq[c].pc = "fetch"
    /\ LET req == hostReq[c]
       IN  IF req.type = "SetInventory" /\ ~present
           THEN HostDone(c, "throw", "noInventory") /\ UNCHANGED sent
           ELSE /\ sent' = send(c, <<Packet("Host" \o req.type,
                                            req.tgtSession.userId, req.fetchFor)>>)
                /\ HostDone(c, "true", "sent")
    /\ UNCHANGED <<roomVars, conns, sessions, loginVars, svcVars, packets>>

\* --- Host.OnGameEnd

\* Room.endGame(): valid while a match runs; then it clears inGame and
\* tells every member that the game ended.
endGame(room, running) ==
    IF running
    THEN [inGame |-> FALSE,
          frames |-> [i \in 1..Len(room.users) |->
                         Frame(room.users[i].userId, "gameEnd", 0)]]
    ELSE [inGame |-> running, frames |-> <<>>]

EndGame(r) ==
    /\ inGame' = [inGame EXCEPT ![r] = endGame(rooms[r], @).inGame]
    /\ wire' = endGame(rooms[r], inGame[r]).frames
    /\ lastOp' = Op("endGame", r, 0, rooms[r].host.userId, 0)
    /\ UNCHANGED <<rooms, emptyCalls>>

\* The host starts the match of its room.
StartGame(c) ==
    /\ Ready(c)
    /\ isInRoom(sessions[conns[c].owner])
    /\ LET r == sessions[conns[c].owner].currentRoomId
       IN  /\ rooms[r].state = "live"
           /\ rooms[r].host.userId = conns[c].owner
           /\ ~inGame[r]
           /\ inGame' = [inGame EXCEPT ![r] = TRUE]
           /\ wire' = <<>>
           /\ lastOp' = Op("startGame", r, conns[c].owner, rooms[r].host.userId, 0)
    /\ UNCHANGED <<rooms, emptyCalls, userVars>>

\* The checks of onHostGameEnd, in order.
GameEndAuthorize(session) ==
    IF session = NoSession THEN Return("false", "noSession")
    ELSE IF ~isInRoom(session) THEN Return("false", "notInRoom")
    ELSE IF getSessionCurRoom(session).state # "live"
         THEN Return("throw", "noRoom")
    ELSE Return("true", "gameEnded")

\* UserSession.get resolves (ok = FALSE: null) and onHostGameEnd runs its
\* checks; when they pass it calls currentRoom.endGame().
onHostGameEnd(c, ok) ==
    /\ hostReq[c].pc = "gameEnd"
    /\ LET session == IF ok THEN sessions[hostReq[c].requester] ELSE NoSession
           res == GameEndAuthorize(session)
       IN  /\ HostDone(c, res.value, res.at)
           /\ IF res.value = "true"
              THEN EndGame(session.currentRoomId)
              ELSE UNCHANGED roomVars
    /\ UNCHANGED <<conns, sent, sessions, loginVars, svcVars, packets>>

\* --- onFavoritePacket, onOptionPacket and their three handlers

WriteTypes == {"FavoriteSetLoadout", "FavoriteSetCosmetics", "OptionSetBuyMenu"}

WritePacket(c, type) == HostPacket(c, type, 0)

WriteIdle == [pc |-> "idle", type |-> "none", session |-> NoSession]

WriteDone(c, value, at) ==
    /\ writeReq' = [writeReq EXCEPT ![c] = WriteIdle]
    /\ ret' = [ret EXCEPT ![c] = Return(value, at)]

\* A Favorite or Option packet arrives. Without an owner: return false.
\* Otherwise its handler suspends on UserSession.get(conn.getOwner()).
onWritePacket(c, type) ==
    /\ conns[c].open
    /\ login[c].pc \in {"idle", "done"}
    /\ writeReq[c].pc = "idle"
    /\ WritePacket(c, type) \in packets
    /\ packets' = packets \ {WritePacket(c, type)}
    /\ IF hasOwner(c) = FALSE
       THEN WriteDone(c, "false", "noOwner")
       ELSE /\ writeReq' = [writeReq EXCEPT ![c].pc = "getSession",
                                            ![c].type = type]
            /\ ret' = [ret EXCEPT ![c] = NoReturn]
    /\ UNCHANGED <<roomVars, conns, sent, sessions, loginVars, hostReq, writes, gwVars>>

WriteCall_roomId(session, type) ==
    [userId |-> session.currentRoomId, kind |-> type]

\* UserInventory.setLoadoutWeapon / setCosmeticSlot / setBuyMenu(session.userId, ...)
WriteCall(session, type) == [userId |-> session.userId, kind |-> type]

\* UserSession.get resolves (ok = FALSE: null). null returns false;
\* otherwise the write goes to the inventory service and the handler suspends
\* on it.
WriteGotSession(c, ok) ==
    /\ writeReq[c].pc = "getSession"
    /\ LET session == IF ok THEN sessions[conns[c].owner] ELSE NoSession
       IN  IF session = NoSession
           THEN WriteDone(c, "false", "noSession") /\ UNCHANGED writes
           ELSE /\ writeReq' = [writeReq EXCEPT ![c].pc = "write",
                                                ![c].session = session]
                /\ writes' = [writes EXCEPT
                                ![c] = Append(@, WriteCall(session, writeReq[c].type))]
                /\ UNCHANGED ret
    /\ UNCHANGED <<roomVars, conns, sent, sessions, loginVars, hostVars, gwVars>>

\* The inventory service answers the write: return true, and nothing is sent.
WriteReturned(c) ==
    /\ writeReq[c].pc = "write"
    /\ WriteDone(c, "true", "written")
    /\ UNCHANGED <<roomVars, conns, sent, sessions, loginVars, hostVars, writes,
                   gwVars>>

\* --- User.get, User.getByName, User.create, validateCredentials

\* The userIds read through the cache: one more than it holds, and more.
CacheUsers == 1..(CacheMax + CacheOver)

TrackedUser == CHOOSE u \in CacheUsers : \A v \in CacheUsers : u <= v

\* lru-cache: an entry is stale once it is older than maxAge.
isStale_never(hit, t) == FALSE

isStale(hit, t) == t - hit.now > CacheMaxAge

CacheIndex(cache, key) ==
    IF \E i \in 1..Len(cache) : cache[i].userId = key
    THEN CHOOSE i \in 1..Len(cache) : cache[i].userId = key
    ELSE 0

\* userCache.get(key) at time t: a stale entry is deleted and gives
\* undefined; a fresh one becomes the most recently used.
cacheGet(cache, key, t) ==
    LET i == CacheIndex(cache, key)
    IN  IF i = 0 THEN [cache |-> cache, hit |-> FALSE]
        ELSE IF isStale(cache[i], t)
             THEN [cache |-> Splice(cache, i), hit |-> FALSE]
        ELSE [cache |-> <<cache[i]>> \o Splice(cache, i), hit |-> TRUE]

\* userCache.set(key, user) at time t: the entry becomes the most recently
\* used, stamped t, and the least recently used ones beyond max are dropped.
cacheSet(cache, key, t) ==
    LET i == CacheIndex(cache, key)
        rest == IF i = 0 THEN cache ELSE Splice(cache, i)
        all == <<[userId |-> key, now |-> t]>> \o rest
    IN  IF Len(all) > CacheMax THEN SubSeq(all, 1, CacheMax) ELSE all

\* A user-service call: the function, its argument, whether it made an HTTP
\* request, how the request ended, whether it called UserSvcPing.checkNow(),
\* what it returned, when it started and whether the service was known down
\* then.
GwIdle == [fn |-> "none", arg |-> 0, pc |-> "idle", requested |-> FALSE,
           outcome |-> "none", checked |-> FALSE, result |-> "none",
           at |-> 0, down |-> FALSE]

GwFns == {"get", "getByName", "create", "validateCredentials"}

Outcomes == {"200", "other", "error"}

NotFetched == [fetched |-> FALSE, at |-> 0, others |-> {}]

\* if (UserSvcPing.isAlive() === false) return null
Gated_never(up) == FALSE

Gated(up) == up = FALSE

\* The value a call returns for "nothing".
Absent(fn) ==
    CASE fn = "validateCredentials" -> "0"
      [] fn = "create" -> "false"
      [] OTHER -> "null"

\* The value a call returns on status 200.
Found(fn) ==
    CASE fn = "validateCredentials" -> "userId"
      [] fn = "create" -> "true"
      [] fn = "get" -> "fetched"
      [] OTHER -> "user"

OnError_noCheck(fn) == [checked |-> FALSE, result |-> Absent(fn)]

\* catch (error): console.error(error); UserSvcPing.checkNow(); return absent
OnError(fn) == [checked |-> TRUE, result |-> Absent(fn)]

GwCall(fn, arg) ==
    [GwIdle EXCEPT !.fn = fn, !.arg = arg, !.at = now, !.down = ~alive]

\* The call makes its HTTP request and suspends on it.
GwRequest(call) == [call EXCEPT !.pc = "request", !.requested = TRUE]

GwReturn(call, result) == [call EXCEPT !.pc = "done", !.result = result]

\* User.get(userId) up to its await: the cache first, then the liveness gate.
UserGet(userId) ==
    /\ gw.pc # "request"
    /\ LET r == cacheGet(userCache, userId, now)
           call == GwCall("get", userId)
       IN  /\ userCache' = r.cache
           /\ gw' = IF r.hit THEN GwReturn(call, "cached")
                     ELSE IF Gated(alive) THEN GwReturn(call, "null")
                     ELSE GwRequest(call)
    /\ UNCHANGED <<roomVars, conns, sent, sessions, loginVars, hostVars, ret,
                   writeReq, writes, alive, now, ticks, track>>

\* User.getByName(userName) up to its await.
UserGetByName(name) ==
    /\ gw.pc # "request"
    /\ LET call == GwCall("getByName", name)
       IN  gw' = IF Gated(alive) THEN GwReturn(call, "null") ELSE GwRequest(call)
    /\ UNCHANGED <<roomVars, conns, sent, sessions, loginVars, hostVars, ret,
                   writeReq, writes, alive, userCache, now, ticks, track>>

\* User.create and validateCredentials post without asking the pinger.
UserPost(fn, name) ==
    /\ gw.pc # "request"
    /\ fn \in {"create", "validateCredentials"}
    /\ gw' = GwRequest(GwCall(fn, name))
    /\ UNCHANGED <<roomVars, conns, sent, sessions, loginVars, hostVars, ret,
                   writeReq, writes, alive, userCache, now, ticks, track>>

\* The fetches of TrackedUser and of the others since.
Tracked(userId) ==
    IF userId = TrackedUser
    THEN [fetched |-> TRUE, at |-> now, others |-> {}]
    ELSE [track EXCEPT !.others = IF track.fetched THEN @ \cup {userId} ELSE @]

\* The request ends: status 200, another status, or an error thrown.
\* User.get caches the user it got.
GwResponse(outcome) ==
    /\ gw.pc = "request"
    /\ LET call == [gw EXCEPT !.outcome = outcome]
       IN  IF outcome = "error"
           THEN gw' = [GwReturn(call, OnError(gw.fn).result)
                          EXCEPT !.checked = OnError(gw.fn).checked]
           ELSE gw' = GwReturn(call, IF outcome = "200" THEN Found(gw.fn)
                                                        ELSE Absent(gw.fn))
    /\ IF outcome = "200" /\ gw.fn = "get"
       THEN /\ userCache' = cacheSet(userCache, gw.arg, now)
            /\ track' = Tracked(gw.arg)
       ELSE UNCHANGED <<userCache, track>>
    /\ UNCHANGED <<roomVars, conns, sent, sessions, loginVars, hostVars, ret,
                   writeReq, writes, alive, now, ticks>>

\* The pinger's health check answers.
Ping(up) ==
    /\ alive' = up
    /\ UNCHANGED <<roomVars, conns, sent, sessions, loginVars, hostVars, ret,
                   writeReq, writes, userCache, now, ticks, gw, track>>

\* Time passes.
Tick(ms) ==
    /\ ticks < MaxTicks
    /\ ticks' = ticks + 1
    /\ now' = now + ms
    /\ UNCHANGED <<roomVars, conns, sent, sessions, loginVars, hostVars, ret,
                   writeReq, writes, alive, userCache, gw, track>>

\* ------------------------------------------------------------ Init / Next

InitRooms ==
    /\ rooms = [r \in RoomIds |-> NoRoom]
    /\ emptyCalls = [r \in RoomIds |-> 0]
    /\ inGame = [r \in RoomIds |-> FALSE]
    /\ wire = <<>>
    /\ lastOp = NoOp

InitSvc ==
    /\ writeReq = [c \in Conns |-> WriteIdle]
    /\ writes = [c \in Conns |-> <<>>]
    /\ alive = TRUE
    /\ userCache = <<>>
    /\ now = 0
    /\ ticks = 0
    /\ gw = GwIdle
    /\ track = NotFetched

\* Accepted connections before any Login, and no session.
InitUsers ==
    /\ conns = [c \in Conns |-> [open |-> TRUE, owner |-> 0]]
    /\ sent = [c \in Conns |-> <<>>]
    /\ sessions = [u \in UserIds |-> NoSession]
    /\ login = [c \in Conns |-> LoginIdle]
    /\ uiTask = [c \in Conns |-> NoTask]
    /\ invTask = [c \in Conns |-> NoReads]
    /\ hostReq = [c \in Conns |-> HostIdle]
    /\ packets = {}
    /\ ret = [c \in Conns |-> NoReturn]
    /\ InitSvc

Init == InitRooms /\ InitUsers

\* One Room object, from its construction to its deletion, under every
\* sequence of calls.
SoloRoom == CHOOSE r \in RoomIds : \A q \in RoomIds : r <= q

NextRoom ==
    \/ \E u \in UserObjs, o \in RoomOptions :
          NewRoom(SoloRoom, u, o) /\ UNCHANGED userVars
    \/ \E u \in UserObjs :
          /\ Len(rooms[SoloRoom].users) < MaxMembers
          /\ AddUser(SoloRoom, u) /\ UNCHANGED userVars
    \/ \E u \in UserObjs : RemoveUser(SoloRoom, u) /\ UNCHANGED userVars
    \/ \E id \in UserIds : RemoveUserById(SoloRoom, id) /\ UNCHANGED userVars

SpecRoom == Init /\ [][NextRoom]_vars

\* One Room object whose callers add a user only when the room does not hold
\* that user already.
NotMember(room, user) == user.userId \notin MemberIds(room)

NextMembers ==
    \/ \E u \in UserObjs, o \in RoomOptions :
          NewRoom(SoloRoom, u, o) /\ UNCHANGED userVars
    \/ \E u \in UserObjs :
          /\ Len(rooms[SoloRoom].users) < MaxMembers
          /\ NotMember(rooms[SoloRoom], u)
          /\ AddUser(SoloRoom, u) /\ UNCHANGED userVars
    \/ \E u \in UserObjs : RemoveUser(SoloRoom, u) /\ UNCHANGED userVars
    \/ \E id \in UserIds : RemoveUserById(SoloRoom, id) /\ UNCHANGED userVars

SpecMembers == Init /\ [][NextMembers]_vars

\* The User object a later User.get returns for the same userId once the
\* cached one has expired: another object, equal in userId only.
Refetched(user) == [user EXCEPT !.snap = NumSnaps + 1]

\* The same room when a member is removed by the object that was added, by
\* an object fetched anew, or by its userId.
NextRefetch ==
    \/ \E u \in UserObjs, o \in RoomOptions :
          NewRoom(SoloRoom, u, o) /\ UNCHANGED userVars
    \/ \E u \in UserObjs :
          /\ Len(rooms[SoloRoom].users) < MaxMembers
          /\ NotMember(rooms[SoloRoom], u)
          /\ AddUser(SoloRoom, u) /\ UNCHANGED userVars
    \/ \E u \in UserObjs : RemoveUser(SoloRoom, u) /\ UNCHANGED userVars
    \/ \E u \in UserObjs :
          RemoveUser(SoloRoom, Refetched(u)) /\ UNCHANGED userVars
    \/ \E id \in UserIds : RemoveUserById(SoloRoom, id) /\ UNCHANGED userVars

SpecRefetch == Init /\ [][NextRefetch]_vars

\* The same room when the writes of a removal's broadcasts can fail.
NextBroadcast ==
    \/ \E u \in UserObjs, o \in RoomOptions :
          NewRoom(SoloRoom, u, o) /\ UNCHANGED userVars
    \/ \E u \in UserObjs :
          /\ Len(rooms[SoloRoom].users) < MaxMembers
          /\ NotMember(rooms[SoloRoom], u)
          /\ AddUser(SoloRoom, u) /\ UNCHANGED userVars
    \/ \E id \in UserIds, fail \in [UserIds -> FailKinds] :
          RemoveUserByIdFailing(SoloRoom, id, fail) /\ UNCHANGED userVars

SpecBroadcast == Init /\ [][NextBroadcast]_vars

\* Logins on fresh connections.
NextLogin ==
    \/ \E c \in Conns : onLoginPacket(c)
    \/ \E c \in Conns, u \in Accounts \cup {0} : LoginCreated(c, u)
    \/ \E c \in Conns, found \in BOOLEAN : LoginGotUser(c, found)
    \/ \E c \in Conns : UserInfoResolved(c)
    \/ \E c \in Conns, k \in InvKinds, present \in BOOLEAN :
          InventoryRead(c, k, present)
    \/ \E c \in Conns : ConnClosed(c)

SpecLogin == Init /\ [][NextLogin]_vars

\* One connection, from its Login packet to the last frame of the reply or
\* to its end. The handlers of a login touch no other connection.
SoloConn == CHOOSE c \in Conns : \A d \in Conns : c <= d

NextReply ==
    \/ onLoginPacket(SoloConn)
    \/ \E u \in Accounts \cup {0} : LoginCreated(SoloConn, u)
    \/ \E found \in BOOLEAN : LoginGotUser(SoloConn, found)
    \/ UserInfoResolved(SoloConn)
    \/ \E k \in InvKinds, present \in BOOLEAN : InventoryRead(SoloConn, k, present)
    \/ ConnClosed(SoloConn)

SpecReply == Init /\ [][NextReply]_vars

\* The frames of a completed login.
LoginReply(userId) ==
    sendInventory(write(<<>>, sendUserInfoTo(userId) \o sendChannelListTo
                                \o <<Packet("UserInfo", userId, userId)>>),
                  userId)

\* Every connection has logged in, connection c as user c.
LoggedIn ==
    /\ InitRooms
    /\ conns = [c \in Conns |-> [open |-> TRUE, owner |-> c]]
    /\ sent = [c \in Conns |-> LoginReply(c)]
    /\ sessions = [u \in UserIds |-> IF u \in Conns THEN NewSession(u) ELSE NoSession]
    /\ login = [c \in Conns |-> [pc |-> "done", userId |-> c]]
    /\ uiTask = [c \in Conns |-> [st |-> "done", userId |-> c]]
    /\ invTask = [c \in Conns |-> [NoReads EXCEPT !.st = "done", !.userId = c]]
    /\ hostReq = [c \in Conns |-> HostIdle]
    /\ ret = [c \in Conns |-> Return("true", "loggedIn")]
    /\ InitSvc

\* One Host packet is on its way: any type, naming any user, on any
\* connection.
InitHost ==
    /\ LoggedIn
    /\ \E c \in Conns, t \in HostTypes, u \in UserIds :
          packets = {HostPacket(c, t, u)}

\* The users create, join and leave one room and drop their connections
\* while the packet is handled.
NextHost ==
    \/ \E c \in Conns, o \in RoomOptions : CreateRoom(c, SoloRoom, o)
    \/ \E c \in Conns : JoinRoom(c, SoloRoom)
    \/ \E c \in Conns : LeaveRoom(c)
    \/ \E c \in Conns : ConnClosed(c)
    \/ \E c \in Conns, t \in HostTypes, u \in UserIds : onHostPacket(c, t, u)
    \/ \E c \in Conns, found \in BOOLEAN : HostGotUser(c, found)
    \/ \E c \in Conns, okReq \in BOOLEAN, okTgt \in BOOLEAN :
          HostGotSessions(c, okReq, okTgt)
    \/ \E c \in Conns : HostCheck(c)
    \/ \E c \in Conns, present \in BOOLEAN : HostFetched(c, present)

SpecHost == InitHost /\ [][NextHost]_vars

\* One Host.OnGameEnd packet is on its way on any connection while the
\* users create and join one room and its host starts the match.
InitGameEnd ==
    /\ LoggedIn
    /\ \E c \in Conns : packets = {HostPacket(c, "OnGameEnd", 0)}

NextGameEnd ==
    \/ \E c \in Conns, o \in RoomOptions : CreateRoom(c, SoloRoom, o)
    \/ \E c \in Conns : JoinRoom(c, SoloRoom)
    \/ \E c \in Conns : StartGame(c)
    \/ \E c \in Conns : onHostPacket(c, "OnGameEnd", 0)
    \/ \E c \in Conns, found \in BOOLEAN : HostGotUser(c, found)
    \/ \E c \in Conns, ok \in BOOLEAN : onHostGameEnd(c, ok)

SpecGameEnd == InitGameEnd /\ [][NextGameEnd]_vars

\* Every connection has one Favorite or Option packet on its way, of any
\* type, and the connections may drop meanwhile.
InitWrite ==
    /\ LoggedIn
    /\ \E t \in [Conns -> WriteTypes] :
          packets = {WritePacket(c, t[c]) : c \in Conns}

NextWrite ==
    \/ \E c \in Conns, t \in WriteTypes : onWritePacket(c, t)
    \/ \E c \in Conns, ok \in BOOLEAN : WriteGotSession(c, ok)
    \/ \E c \in Conns : WriteReturned(c)
    \/ \E c \in Conns : ConnClosed(c)

SpecWrite == InitWrite /\ [][NextWrite]_vars

\* Connections that have logged in and connections that have not, and one
\* Host, Favorite or Option packet on its way on one of them.
InitStray ==
    /\ InitRooms
    /\ \E owned \in SUBSET Conns :
          /\ conns = [c \in Conns |->
                        [open |-> TRUE, owner |-> IF c \in owned THEN c ELSE 0]]
          /\ sent = [c \in Conns |-> IF c \in owned THEN LoginReply(c) ELSE <<>>]
          /\ sessions = [u \in UserIds |-> IF u \in owned THEN NewSession(u)
                                           ELSE NoSession]
          /\ login = [c \in Conns |-> IF c \in owned
                                       THEN [pc |-> "done", userId |-> c]
                                       ELSE LoginIdle]
          /\ uiTask = [c \in Conns |-> IF c \in owned
                                        THEN [st |-> "done", userId |-> c]
                                        ELSE NoTask]
          /\ invTask = [c \in Conns |->
                          IF c \in owned
                          THEN [NoReads EXCEPT !.st = "done", !.userId = c]
                          ELSE NoReads]
          /\ ret = [c \in Conns |-> IF c \in owned THEN Return("true", "loggedIn")
                                     ELSE NoReturn]
    /\ hostReq = [c \in Conns |-> HostIdle]
    /\ InitSvc
    /\ \/ \E c \in Conns, t \in HostTypes, u \in UserIds :
             packets = {HostPacket(c, t, u)}
       \/ \E c \in Conns, t \in WriteTypes : packets = {WritePacket(c, t)}

\* The packet is handled, up to the room checks of a Host packet (there is
\* no room), while connections drop.
NextStray ==
    \/ \E c \in Conns, t \in HostTypes, u \in UserIds : onHostPacket(c, t, u)
    \/ \E c \in Conns, found \in BOOLEAN : HostGotUser(c, found)
    \/ \E c \in Conns, okReq \in BOOLEAN, okTgt \in BOOLEAN :
          HostGotSessions(c, okReq, okTgt)
    \/ \E c \in Conns : HostCheck(c)
    \/ \E c \in Conns, t \in WriteTypes : onWritePacket(c, t)
    \/ \E c \in Conns, ok \in BOOLEAN : WriteGotSession(c, ok)
    \/ \E c \in Conns : WriteReturned(c)
    \/ \E c \in Conns : ConnClosed(c)

SpecStray == InitStray /\ [][NextStray]_vars

\* The calls of the user service for one user and one name, one call at a
\* time, while the pinger's view of the service changes and time passes.
TickSteps == {1, CacheMaxAge}

NextGateway ==
    \/ UserGet(TrackedUser)
    \/ UserGetByName(TrackedUser)
    \/ \E fn \in {"create", "validateCredentials"} : UserPost(fn, TrackedUser)
    \/ \E outcome \in Outcomes : GwResponse(outcome)
    \/ \E up \in BOOLEAN : Ping(up)
    \/ \E ms \in TickSteps : Tick(ms)

SpecGateway == Init /\ [][NextGateway]_vars

\* The constructor on every options object, for each room id in turn: the
\* rooms of the ids before it were created, left by their host and deleted.
FirstUser == UserOf(CHOOSE u \in UserIds : \A v \in UserIds : u <= v)

ClosedRoom(r) ==
    emptyRoomCallback(removeUser(RoomCtor(r, FirstUser, NoOptions), FirstUser).room)

InitOptions ==
    /\ \E n \in RoomIds \cup {0} :
          /\ n + 1 \in RoomIds
          /\ rooms = [r \in RoomIds |-> IF r <= n THEN ClosedRoom(r) ELSE NoRoom]
          /\ emptyCalls = [r \in RoomIds |-> IF r <= n THEN 1 ELSE 0]
          /\ inGame = [r \in RoomIds |-> FALSE]
          /\ lastOp = IF n = 0 THEN NoOp
                      ELSE Op("removeUser", n, FirstUser.userId, FirstUser.userId, 1)
    /\ wire = <<>>
    /\ InitUsers

NextOptions ==
    /\ \A q \in RoomIds : rooms[q].state # "live"
    /\ \E r \in RoomIds, name \in NameOptions, given \in GivenFields :
          \E v \in [given -> 0..MaxVal] :
              NewRoom(r, FirstUser, Options(name, v)) /\ UNCHANGED userVars

SpecOptions == InitOptions /\ [][NextOptions]_vars

\* User.get of one user again and again while the other users are read one
\* after the other, each once, in the order of their ids. Time passes while
\* the cache is small, the cache grows past that while the clock stands at
\* its start, and the one user is read while the cache is small or full.
NewUsers ==
    {u \in CacheUsers : /\ u # TrackedUser
                        /\ \A i \in 1..Len(userCache) : userCache[i].userId < u}

NextNew == CHOOSE u \in NewUsers : \A v \in NewUsers : u <= v

SmallOrFull == Len(userCache) <= CacheChurn \/ Len(userCache) >= CacheMax

NextCache ==
    \/ SmallOrFull /\ UserGet(TrackedUser)
    \/ /\ NewUsers # {}
       /\ Len(userCache) < CacheChurn \/ ticks = 0
       /\ UserGet(NextNew)
    \/ \E outcome \in Outcomes : GwResponse(outcome)
    \/ \E ms \in TickSteps : Len(userCache) <= CacheChurn /\ Tick(ms)

SpecCache == Init /\ [][NextCache]_vars

\* Users joining rooms in turn: the next joiner of a room is the account of
\* the smallest id that is not in it, and members leave only small rooms.
FillUsers == 1..(MaxPlayersBots + FillOver)

Joiner(room) ==
    UserOf(CHOOSE u \in FillUsers :
                /\ u \notin MemberIds(room)
                /\ \A v \in FillUsers : v < u => v \in MemberIds(room))

FillCap(r) == IF r = SoloRoom THEN MaxPlayersBots + FillOver ELSE MaxMembers

NextFill ==
    \/ \E r \in RoomIds, o \in RoomOptions :
          NewRoom(r, UserOf(r), o) /\ UNCHANGED userVars
    \/ \E r \in RoomIds :
          /\ Len(rooms[r].users) < FillCap(r)
          /\ AddUser(r, Joiner(rooms[r])) /\ UNCHANGED userVars
    \/ \E r \in RoomIds, u \in UserObjs :
          /\ Len(rooms[r].users) <= FillChurn
          /\ RemoveUser(r, u) /\ UNCHANGED userVars
    \/ \E r \in RoomIds, id \in UserIds :
          /\ Len(rooms[r].users) <= FillChurn
          /\ RemoveUserById(r, id) /\ UNCHANGED userVars

SpecFill == Init /\ [][NextFill]_vars

\* ----------------------------------------------------------------- claims

IsRemoval(op) == op.op \in {"removeUser", "removeUserById"} /\ op.index # 0

\* C1: every room has 0 <= users.length <= maxPlayers after any sequence of
\* construction, addUser, removeUser and removeUserById calls (addUser on a
\* room without free slots does not grow the member list).
C1_SlotBound ==
    \A r \in RoomIds :
        rooms[r].state = "live" =>
            /\ 0 <= Len(rooms[r].users)
            /\ Len(rooms[r].users) <= rooms[r].maxPlayers

\* C2: after every mutation of a room, either its member list is empty and
\* it has been handed to emptyRoomCallback, or its host is one of its members.
C2_HostPresence ==
    \A r \in RoomIds :
        rooms[r].state # "none" =>
            \/ /\ Len(rooms[r].users) = 0
               /\ rooms[r].state = "deleted"
               /\ emptyCalls[r] >= 1
            \/ \E i \in 1..Len(rooms[r].users) : rooms[r].users[i] = rooms[r].host

C2_Witness ==
    \E r \in RoomIds :
        /\ IsRemoval(lastOp) /\ lastOp.room = r
        /\ lastOp.hostBefore = lastOp.userId
        /\ rooms[r].state = "live"
        /\ rooms[r].host.userId # lastOp.hostBefore
        /\ \E i \in 1..Len(rooms[r].users) : rooms[r].users[i] = rooms[r].host

\* C3: when the host is removed from a room with members [h, a, b, ...], the
\* new host is a, the earliest-joined remaining member, and the remaining
\* members keep their join order.
C3_HostElectionFifo ==
    [][\A r \in RoomIds :
          ( /\ IsRemoval(lastOp') /\ lastOp'.room = r
            /\ rooms[r].state = "live"
            /\ Len(rooms[r].users) >= 2
            /\ rooms[r].users[lastOp'.index] = rooms[r].host )
          => /\ rooms'[r].host = rooms[r].users[2]
             /\ rooms'[r].users = Tail(rooms[r].users)]_vars

C3_Witness ==
    \E r \in RoomIds :
        /\ IsRemoval(lastOp) /\ lastOp.room = r
        /\ lastOp.index = 1 /\ lastOp.hostBefore = lastOp.userId
        /\ rooms[r].state = "live"
        /\ Len(rooms[r].users) >= 2
        /\ Cardinality(MemberIds(rooms[r]) \cup {lastOp.userId})
              = Len(rooms[r].users) + 1

\* C4: no user is in the member lists of two rooms at once.
C4_OneRoomPerUser ==
    \A r1, r2 \in RoomIds :
        (r1 # r2 /\ rooms[r1].state = "live" /\ rooms[r2].state = "live")
            => MemberIds(rooms[r1]) \cap MemberIds(rooms[r2]) = {}

\* C5: of two completed logins of one user on different connections, the
\* earlier connection is closed by the time the later login completes: never
\* are two open connections owned by the same user.
C5_SingleSession ==
    \A c1, c2 \in Conns :
        ( /\ c1 # c2
          /\ login[c1].pc = "done" /\ login[c2].pc = "done"
          /\ conns[c1].owner = conns[c2].owner )
        => ~(conns[c1].open /\ conns[c2].open)

\* The handler of connection c is about to run its checks, and the room its
\* requester's session names is there with the requester as its host.
HostAtCheck(c) ==
    /\ hostReq[c].pc = "check"
    /\ getSessionCurRoom(hostReq[c].reqSession).state = "live"
    /\ getSessionCurRoom(hostReq[c].reqSession).host.userId = hostReq[c].requester

\* C6: a Host.SetInventory / SetLoadout / SetBuyMenu packet whose requester
\* is not the host of its room when the handler checks never reaches the
\* inventory-service fetch, and no handler step before the fetch writes a
\* frame on any connection.
C6_NonHostNoFetch ==
    [][\A c \in Conns :
          ( /\ hostReq'[c] # hostReq[c]
            /\ hostReq[c].pc # "fetch"
            /\ ~HostAtCheck(c) )
          => /\ hostReq'[c].pc # "fetch"
             /\ sent' = sent
             /\ ret'[c].value # "true"]_vars

C6_Witness ==
    \E c \in Conns :
        /\ ret[c] = Return("false", "notHost")
        /\ hostReq[c] = HostIdle /\ packets = {}
        /\ \A d \in Conns : sent[d] = LoginReply(d)

\* C7: a host-proxied packet reaches the fetch only if the requester has a
\* session, the requester is in a room, the target has a session, the
\* requester is that room's host and the target is a member of that room.
C7_FiveConditions ==
    [][\A c \in Conns :
          (hostReq[c].pc = "check" /\ hostReq'[c].pc = "fetch")
          => /\ hostReq[c].reqSession # NoSession
             /\ isInRoom(hostReq[c].reqSession)
             /\ hostReq[c].tgtSession # NoSession
             /\ HostAtCheck(c)
             /\ hostReq[c].target
                   \in MemberIds(getSessionCurRoom(hostReq[c].reqSession))]_vars

\* C8: every Host.SetInventory frame carries the items of the user it is
\* tagged with, the target.
C8_TargetInventory ==
    \A c \in Conns : \A i \in 1..Len(sent[c]) :
        sent[c][i].type = "HostSetInventory" =>
            sent[c][i].data = sent[c][i].about

\* C9: a login whose session could not be created closes the connection,
\* writes no frame on it, leaves its owner unbound and returns false.
C9_RejectedLogin ==
    \A c \in Conns :
        login[c].pc = "rejected" =>
            /\ ~conns[c].open
            /\ sent[c] = <<>>
            /\ conns[c].owner = 0
            /\ ret[c].value = "false"

C9_Witness ==
    \E c \in Conns :
        /\ login[c].pc = "rejected" /\ ret[c] = Return("false", "noSession")
        /\ ~conns[c].open /\ sent[c] = <<>>

\* C10: on a successful login UserStart is the first frame written and the
\* UserInfo full update is written before every inventory frame.
C10_UserInfoBeforeInventory ==
    \A c \in Conns :
        login[c].pc = "done" =>
            /\ sent[c][1].type = "UserStart"
            /\ \A i \in 1..Len(sent[c]) :
                  sent[c][i].type \in InventoryTypes =>
                      \E j \in 1..(i - 1) : sent[c][j].type = "UserInfo"

\* The packet types of the frames written on connection c that are among
\* types, in the order they were written.
TypesSent(c, types) ==
    LET Among(f) == f.type \in types
        fs == SelectSeq(sent[c], Among)
    IN  [i \in 1..Len(fs) |-> fs[i].type]

\* C11: the inventory frames of a login are written in the order Inventory,
\* SetCosmetics, SetLoadout, SetBuyMenu, each once, whatever order the four
\* inventory-service reads resolve in.
C11_InventoryOrder ==
    \A c \in Conns :
        TypesSent(c, {"Inventory", "SetCosmetics", "SetLoadout", "SetBuyMenu"})
            \in { <<>>, <<"Inventory", "SetCosmetics", "SetLoadout", "SetBuyMenu">> }

C11_Witness ==
    \E c \in Conns :
        /\ invTask[c].st = "done" /\ invTask[c].ok
        /\ uiTask[c].st = "pending"
        /\ Len(TypesSent(c, {"Inventory", "SetCosmetics", "SetLoadout",
                              "SetBuyMenu"})) = 4

\* C12: ChannelList is the last frame of the login reply: it is written
\* after UserStart, the UserInfo full update and the inventory frames, and
\* no frame of the reply follows it.
C12_ChannelListLast ==
    \A c \in Conns : \A i \in 1..Len(sent[c]) :
        sent[c][i].type = "ChannelList" =>
            /\ i = Len(sent[c])
            /\ \E j \in 1..(i - 1) : sent[c][j].type = "UserStart"
            /\ \E j \in 1..(i - 1) : sent[c][j].type = "UserInfo"

C14_WriteThrough ==
    /\ \A c \in Conns : sent[c] = LoginReply(c)
    /\ \A c \in Conns :
          IF writeReq[c].pc = "write" \/ ret[c].at = "written"
          THEN /\ Len(writes[c]) = 1
               /\ writes[c][1].userId = conns[c].owner
               /\ writes[c][1].kind \in WriteTypes
               /\ WritePacket(c, writes[c][1].kind) \notin packets
          ELSE writes[c] = <<>>

C14_Witness ==
    \E c \in Conns :
        /\ ret[c] = Return("true", "written")
        /\ writes[c] = <<WriteCall(NewSession(conns[c].owner), "OptionSetBuyMenu")>>
        /\ sent[c] = LoginReply(c)

\* C15 as stated: when the user service is known down, User.get and
\* User.getByName make no HTTP request and return null, for every userId and
\* every name.
C15_DownReadsAbsent ==
    (gw.fn \in {"get", "getByName"} /\ gw.down)
        => /\ gw.pc = "done"
           /\ ~gw.requested
           /\ gw.result = "null"

\* C15 as amended: when the user service is known down, User.get and
\* User.getByName make no HTTP request; getByName returns null, and User.get
\* returns null unless the cache holds an unexpired User for the userId,
\* which it then returns.
C15_DownReadsNoRequest ==
    (gw.fn \in {"get", "getByName"} /\ gw.down)
        => /\ gw.pc = "done"
           /\ ~gw.requested
           /\ \/ gw.result = "null"
              \/ /\ gw.fn = "get" /\ gw.result = "cached"
                 /\ userCache # <<>>
                 /\ userCache[1].userId = gw.arg
                 /\ gw.at - userCache[1].now <= CacheMaxAge

C15_Witness ==
    /\ gw.fn = "get" /\ gw.down /\ gw.pc = "done"
    /\ gw.result = "null" /\ ~gw.requested
    /\ userCache = <<>>

\* C16: a user-service call whose HTTP request raises an error calls
\* UserSvcPing.checkNow() and returns its absent value (validateCredentials
\* 0, User.get null, User.getByName null, User.create false) instead of
\* throwing.
C16_ErrorsAbsorbed ==
    gw.outcome = "error"
        => /\ gw.pc = "done"
           /\ gw.checked
           /\ gw.fn = "validateCredentials" => gw.result = "0"
           /\ gw.fn \in {"get", "getByName"} => gw.result = "null"
           /\ gw.fn = "create" => gw.result = "false"

C16_Witness ==
    /\ gw.fn = "validateCredentials" /\ gw.outcome = "error"
    /\ gw.pc = "done" /\ gw.checked /\ gw.result = "0"

\* A User.get of TrackedUser starts with this step.
GetStarts ==
    /\ gw.pc # "request"
    /\ gw' # gw
    /\ gw'.fn = "get" /\ gw'.arg = TrackedUser

C18_OptionDefaults ==
    lastOp.op = "new" =>
        LET room == rooms[lastOp.room]
            options == lastOp.options
            Defaults ==
                [gameModeId |-> 0, mapId |-> 1, winLimit |-> 10,
                 killLimit |-> 150, startMoney |-> 16000, forceCamera |-> 1,
                 nextMapEnabled |-> 0, changeTeams |-> 0, enableBots |-> 0,
                 difficulty |-> 0, respawnTime |-> 3, teamBalance |-> 0,
                 weaponRestrictions |-> 0, hltvEnabled |-> 0]
        IN  /\ \A f \in NumberFields : ~options[f].given => room[f] = Defaults[f]
            /\ ~options.roomName.given => room.roomName = <<"Room #", lastOp.room>>
            /\ room.maxPlayers = IF room.enableBots # 0 THEN 16 ELSE 32

C18_Witness ==
    /\ lastOp.op = "new"
    /\ lastOp.room # SoloRoom
    /\ lastOp.options.enableBots.given /\ lastOp.options.killLimit.given
    /\ ~lastOp.options.roomName.given
    /\ rooms[lastOp.room].maxPlayers = 16
    /\ rooms[lastOp.room].roomName = <<"Room #", lastOp.room>>
    /\ rooms[lastOp.room].startMoney = 16000

NonHostRemoval(r) ==
    /\ IsRemoval(lastOp') /\ lastOp'.room = r
    /\ rooms[r].state = "live"
    /\ Len(rooms[r].users) >= 2
    /\ rooms[r].users[lastOp'.index] # rooms[r].host

\* C19 as stated: removing a member that is not the host from a room that
\* stays non-empty leaves the host unchanged and sends playerLeave but no
\* setHost frame to any member.
C19_SetHostOnlyForHost ==
    [][\A r \in RoomIds :
          NonHostRemoval(r)
          => /\ rooms'[r].host = rooms[r].host
             /\ \A i \in 1..Len(wire') : wire'[i].type # "setHost"
             /\ \E i \in 1..Len(wire') : wire'[i].type = "playerLeave"]_vars

\* C19: every removal from a room that stays non-empty runs the election:
\* removing a member that is not the host leaves the host unchanged and
\* writes, to every remaining member, setHost naming that host, and then,
\* to every remaining member, playerLeave.
C19_ElectionOnEveryRemoval ==
    [][\A r \in RoomIds :
          NonHostRemoval(r)
          => LET rest == rooms'[r].users
             IN  /\ rooms'[r].host = rooms[r].host
                 /\ wire' = [i \in 1..Len(rest) |->
                               Frame(rest[i].userId, "setHost", rooms[r].host.userId)]
                            \o [i \in 1..Len(rest) |->
                                  Frame(rest[i].userId, "playerLeave", lastOp'.userId)]]_vars

C19_Witness ==
    \E r \in RoomIds :
        /\ IsRemoval(lastOp) /\ lastOp.room = r
        /\ lastOp.index > 1
        /\ lastOp.userId # lastOp.hostBefore
        /\ rooms[r].state = "live"
        /\ rooms[r].host.userId = lastOp.hostBefore
        /\ \E i \in 1..Len(wire) :
              wire[i] = Frame(rooms[r].host.userId, "setHost", lastOp.hostBefore)
        /\ \E i \in 1..Len(wire) : wire[i].type = "playerLeave"

\* The positions in the frames written of this frame.
Written(frame) == {k \in 1..Len(wire) : wire[k] = frame}

C21_EmptyRoomCallback ==
    [][\A r \in RoomIds :
          /\ ( /\ IsRemoval(lastOp') /\ lastOp'.room = r
               /\ rooms[r].state = "live"
               /\ Len(rooms[r].users) = 1 )
             => /\ emptyCalls'[r] = emptyCalls[r] + 1
                /\ wire' = <<>>
          /\ emptyCalls'[r] # emptyCalls[r]
             => /\ IsRemoval(lastOp') /\ lastOp'.room = r
                /\ Len(rooms'[r].users) = 0
                /\ emptyCalls'[r] = emptyCalls[r] + 1]_vars

C21_Witness ==
    \E r \in RoomIds :
        /\ IsRemoval(lastOp) /\ lastOp.room = r
        /\ rooms[r].state = "deleted"
        /\ Len(rooms[r].users) = 0
        /\ emptyCalls[r] = 1
        /\ wire = <<>>

\* A host-proxied handler leaves its checks without going on to the fetch.
AuthFailure(c) == hostReq[c].pc = "check" /\ hostReq'[c].pc = "idle"

\* C22: whenever a host-proxied packet fails an authorization step
\* (requester session missing, requester not in a room, target session
\* missing, room not found, requester not the host), the handler returns
\* false, sends no frame, leaves the connection open and throws nothing.
C22_AuthFailureDropped ==
    [][\A c \in Conns :
          AuthFailure(c)
          => /\ ret'[c].value = "false"
             /\ sent' = sent
             /\ conns' = conns]_vars

\* C23: when the inventory service returns absent, an otherwise authorized
\* Host.SetInventory relay is dropped: no frame is sent to the host, the
\* handler throws nothing and the connection stays open.
C23_AbsentInventoryDropped ==
    [][\A c \in Conns :
          ( /\ hostReq[c].pc = "fetch" /\ hostReq[c].type = "SetInventory"
            /\ ret'[c].at = "noInventory" )
          => /\ ret'[c].value # "throw"
             /\ sent' = sent
             /\ conns' = conns]_vars

\* A packet of connection c is taken up by its handler.
Handled(c) == \E p \in packets \ packets' : p.conn = c

\* C24: a Host, Favorite or Option packet arriving on a connection that has
\* no owner is dropped: the handler returns false, calls neither the user
\* service nor the inventory service, sends nothing, and the socket stays
\* open.
C24_NoOwnerDropped ==
    [][\A c \in Conns :
          (conns[c].owner = 0 /\ Handled(c))
          => /\ ret'[c] = Return("false", "noOwner")
             /\ hostReq'[c] = HostIdle
             /\ writeReq'[c] = WriteIdle
             /\ writes' = writes
             /\ gw' = gw
             /\ sent' = sent
             /\ conns' = conns]_vars

C24_Witness ==
    \E c \in Conns :
        /\ conns[c].owner = 0 /\ conns[c].open
        /\ packets = {}
        /\ ret[c] = Return("false", "noOwner")
        /\ sent[c] = <<>>

\* onHostGameEnd of connection c returns.
GameEndReturns(c) == hostReq[c].pc = "gameEnd" /\ hostReq'[c].pc = "idle"

\* The sender is the host of its room and a match runs in it.
HostInGame(c) ==
    LET session == sessions[conns[c].owner]
    IN  /\ conns[c].owner # 0
        /\ isInRoom(session)
        /\ getSessionCurRoom(session).state = "live"
        /\ getSessionCurRoom(session).host.userId = conns[c].owner
        /\ inGame[session.currentRoomId]

\* C25: Host.OnGameEnd ends the game only when the sender is the host of its
\* room and the room is in game; otherwise the room's state stays as it is
\* and nothing is broadcast.
C25_GameEndByHostInGame ==
    [][\A c \in Conns :
          (GameEndReturns(c) /\ ~HostInGame(c))
          => /\ inGame' = inGame
             /\ rooms' = rooms
             /\ \A i \in 1..Len(wire') : wire'[i].type # "gameEnd"]_vars

\* C26: after a connection is closed, no handler that was suspended on a
\* service call for it writes a frame on it (a login whose socket closes
\* while the user or inventory fetch is pending sends no UserInfo, inventory
\* or ChannelList frame afterwards).
C26_NoWriteAfterClose ==
    [][\A c \in Conns : ~conns[c].open => sent'[c] = sent[c]]_vars

\* C27: a room broadcast iterates a snapshot of the member list: when a
\* write to one member fails during the broadcast and that member is
\* removed as a disconnect, every other member still receives the frame
\* exactly once.
C27_BroadcastSnapshot ==
    \A r \in RoomIds :
        (IsRemoval(lastOp) /\ lastOp.room = r /\ rooms[r].state = "live") =>
            \A m \in MemberIds(rooms[r]) :
                Cardinality(Written(Frame(m, "playerLeave", lastOp.userId))) = 1

\* C28: whenever a room is non-empty, its host is the member at index 0 of
\* users, after any sequence of construction, addUser, removeUser and
\* removeUserById.
C28_HostIsFirstMember ==
    \A r \in RoomIds :
        (rooms[r].state = "live" /\ Len(rooms[r].users) > 0)
            => rooms[r].host = rooms[r].users[1]

C28_Witness ==
    \E r \in RoomIds :
        /\ IsRemoval(lastOp) /\ lastOp.room = r /\ lastOp.index = 1
        /\ rooms[r].state = "live"
        /\ Len(rooms[r].users) >= 2
        /\ rooms[r].host.userId # lastOp.hostBefore
        /\ rooms[r].host = rooms[r].users[1]

\* C29: a room constructed with an option set to a value stores exactly
\* that value, also when the value is 0; a default replaces only a field
\* that was not specified.
C29_GivenOptionsStored ==
    lastOp.op = "new" =>
        \A f \in NumberFields :
            lastOp.options[f].given => rooms[lastOp.room][f] = lastOp.options[f].val

\* C30: the login inventory reply is all-or-nothing: when one of the four
\* inventory reads returns absent, none of the inventory frames and not the
\* unlock blob is sent, while the login succeeds and UserStart, UserInfo and
\* ChannelList are sent.
C30_InventoryAllOrNothing ==
    \A c \in Conns :
        (invTask[c].st = "done" /\ ~invTask[c].ok) =>
            /\ TypesSent(c, InventoryTypes) = <<>>
            /\ ret[c] = Return("true", "loggedIn")
            /\ TypesSent(c, {"UserStart"}) = <<"UserStart">>
            /\ TypesSent(c, {"ChannelList"}) = <<"ChannelList">>
            /\ TypesSent(c, {"UserInfo"}) =
                  IF uiTask[c].st = "done" THEN <<"UserInfo">> ELSE <<>>

C30_Witness ==
    \E c \in Conns :
        /\ invTask[c].st = "done" /\ ~invTask[c].ok
        /\ uiTask[c].st = "done"
        /\ conns[c].open
        /\ Len(sent[c]) = 3

\* C31: removeUser(u) and removeUserById(u.userId) are equivalent for every
\* member: from the same room both leave the same member list and host,
\* write the same frames and make the same emptyRoomCallback call, also
\* when u is an object fetched anew for the userId and not the one added.
C31_RemovalsEquivalent ==
    [][\A r \in RoomIds :
          ( /\ lastOp'.op = "removeUser" /\ lastOp'.room = r
            /\ rooms[r].state = "live"
            /\ lastOp'.userId \in MemberIds(rooms[r]) )
          => LET byId == removeUserById(rooms[r], lastOp'.userId)
             IN  /\ rooms'[r] = IF byId.empty THEN emptyRoomCallback(byId.room)
                                ELSE byId.room
                 /\ wire' = byId.frames
                 /\ emptyCalls'[r] = emptyCalls[r] + IF byId.empty THEN 1 ELSE 0]_vars

\* C32: a host-proxied frame (Host.SetInventory / SetLoadout / SetBuyMenu)
\* is written only on a connection whose owner is, at the moment of the
\* write, the host of a room: when the requester left the room or lost the
\* host role while the handler was suspended on the inventory service, no
\* frame is delivered.
C32_WrittenOnlyToHost ==
    [][\A c \in Conns :
          (hostReq[c].pc = "fetch" /\ sent'[c] # sent[c])
          => \E r \in RoomIds : /\ rooms'[r].state = "live"
                                /\ rooms'[r].host.userId = conns[c].owner]_vars

====
